---- MODULE Spec2Model ----
(***************************************************************************)
(* A model of the news-to-insight pipeline of src/app.py: the quote and    *)
(* news stages, the AI-backed endpoints built on them (sentiment, article  *)
(* summaries, article detail, daily rationale), the thread-pool fan-out of *)
(* the headline workers, the parser of the sentiment reply, the freshness  *)
(* filter of the news entries and the prompt sanitizer.                    *)
(*                                                                         *)
(* Text is modelled as a sequence of symbols.  A symbol is either one of   *)
(* the separators " ", "\n", ":" or an indivisible lexeme (a word, a digit,*)
(* a sign) that contains no separator.  The string operations of the code  *)
(* (split, strip, startswith, replace, lower, int) are operators on such   *)
(* sequences.                                                              *)
(***************************************************************************)
EXTENDS Integers, Sequences, FiniteSets, TLC

VARIABLES
    \* ---- the sentiment reply parser (src/app.py 566-594) ----
    articles,            \* the article list the reply is parsed against
    line,                \* `line` of `for line in response_text.split('\n')`, in the loop body
    lines_left,          \* how many lines of the reply are still to come
    lines_read,          \* how many lines of the reply the loop has taken
    overall_sentiment,   \* local of get_stock_sentiment
    article_sentiments,  \* local of get_stock_sentiment
    parse_pc,            \* "idle" | "start" | "for" | "body" | "done"
    parse_result         \* the JSON body returned at 586-594

parseVars == <<articles, line, lines_left, lines_read, overall_sentiment,
               article_sentiments, parse_pc, parse_result>>

VARIABLES
    \* ---- sanitize_for_ai_prompt applied, and applied again (src/app.py 96-105) ----
    text_arg,            \* `text`, the argument of sanitize_for_ai_prompt
    sanitized,           \* what sanitize_for_ai_prompt(text) returned
    resanitized,         \* what sanitize_for_ai_prompt(sanitized) returned
    sanitize_pc          \* "idle" | "start" | "once" | "twice"

sanVars == <<text_arg, sanitized, resanitized, sanitize_pc>>
pureVars == <<parseVars, sanVars>>

VARIABLES
    \* ---- the world outside the program ----
    api_key,             \* whether CLAUDE_API_KEY is set in the environment
    in_watchlist,        \* whether the row store holds the ticker for the user
    feed,                \* the entries the news feed answers with now
    hist,                \* the closes the market-data source answers with now
    env_changes,         \* how often feed or hist changed during the request
    \* ---- one request ----
    endpoint,            \* the view function the request was routed to
    stack,               \* the view functions being executed, innermost last
    pc,                  \* the position of each view function
    ret,                 \* what the last nested view function returned
    response,            \* what the routed view function returned
    calls,               \* the outbound calls issued so far, in order
    sent,                \* locals of get_stock_sentiment
    summ,                \* locals of get_article_summaries
    pool,                \* the futures of the ThreadPoolExecutor
    daily                \* locals of get_daily_summary

envVars == <<api_key, in_watchlist, feed, hist, env_changes>>
ctlVars == <<endpoint, stack, pc, ret, response, calls>>
locVars == <<sent, summ, pool, daily>>
reqVars == <<envVars, ctlVars, locVars>>
vars == <<reqVars, pureVars>>

(***************************************************************************)
(* Bounds                                                                  *)
(***************************************************************************)
MaxLines == 2
MaxTokens == 3
MaxFeed == 6
MaxHist == 2
MaxEnvChanges == 1
MaxRuns == 3

(***************************************************************************)
(* Python string operations on symbol sequences                            *)
(***************************************************************************)
Whitespace == {" ", "\n"}

\* s.startswith(p)
StartsWith(s, p) == Len(s) >= Len(p) /\ SubSeq(s, 1, Len(p)) = p

RECURSIVE StrReplace(_, _)
\* s.replace(p, ''): every non-overlapping occurrence of p, left to right
StrReplace(s, p) ==
    IF s = <<>> THEN <<>>
    ELSE IF StartsWith(s, p) THEN StrReplace(SubSeq(s, Len(p) + 1, Len(s)), p)
    ELSE <<Head(s)>> \o StrReplace(Tail(s), p)

RECURSIVE LStrip(_)
LStrip(s) == IF s # <<>> /\ Head(s) \in Whitespace THEN LStrip(Tail(s)) ELSE s

RECURSIVE RStrip(_)
RStrip(s) ==
    IF s # <<>> /\ s[Len(s)] \in Whitespace THEN RStrip(SubSeq(s, 1, Len(s) - 1)) ELSE s

\* s.strip()
Strip(s) == RStrip(LStrip(s))

RECURSIVE SplitSep(_, _, _)
\* s.split(sep) for a one-symbol separator: cur is the piece being read
SplitSep(s, sep, cur) ==
    IF s = <<>> THEN <<cur>>
    ELSE IF Head(s) = sep THEN <<cur>> \o SplitSep(Tail(s), sep, <<>>)
    ELSE SplitSep(Tail(s), sep, Append(cur, Head(s)))

StrSplit(s, sep) == SplitSep(s, sep, <<>>)

RECURSIVE SplitWs(_, _)
\* s.split(): runs of whitespace separate, empty pieces are dropped
SplitWs(s, cur) ==
    IF s = <<>> THEN (IF cur = <<>> THEN <<>> ELSE <<cur>>)
    ELSE IF Head(s) \in Whitespace
         THEN (IF cur = <<>> THEN <<>> ELSE <<cur>>) \o SplitWs(Tail(s), <<>>)
    ELSE SplitWs(Tail(s), Append(cur, Head(s)))

StrSplitWs(s) == SplitWs(s, <<>>)

\* sub in s, for a one-symbol sub
Contains(s, sym) == \E i \in 1..Len(s) : s[i] = sym

\* the lower-case form of a lexeme
LowerSym(c) ==
    CASE c = "Bullish" -> "bullish"
      [] c = "Bearish" -> "bearish"
      [] c = "Neutral" -> "neutral"
      [] c = "Great" -> "great"
      [] c = "OVERALL" -> "overall"
      [] c = "ARTICLES" -> "articles"
      [] OTHER -> c

\* s.lower()
Lower(s) == [i \in 1..Len(s) |-> LowerSym(s[i])]

Digits == {"0", "1", "2", "3", "4"}

DigitVal(c) ==
    CASE c = "0" -> 0 [] c = "1" -> 1 [] c = "2" -> 2 [] c = "3" -> 3 [] c = "4" -> 4

RECURSIVE DecVal(_)
DecVal(s) == IF s = <<>> THEN 0 ELSE 10 * DecVal(SubSeq(s, 1, Len(s) - 1)) + DigitVal(s[Len(s)])

AllDigits(s) == s # <<>> /\ \A i \in 1..Len(s) : s[i] \in Digits

\* int(s) raises ValueError unless s is an optional sign and at least one digit
IntOk(s) ==
    \/ AllDigits(s)
    \/ s # <<>> /\ Head(s) \in {"-", "+"} /\ AllDigits(Tail(s))

\* int(s), where IntOk(s)
IntVal(s) ==
    IF Head(s) = "-" THEN 0 - DecVal(Tail(s))
    ELSE IF Head(s) = "+" THEN DecVal(Tail(s))
    ELSE DecVal(s)

(***************************************************************************)
(* The sentiment reply parser, get_stock_sentiment lines 566-584           *)
(***************************************************************************)
Neutral == <<"neutral">>
SentimentEnum == {<<"bullish">>, <<"bearish">>, <<"neutral">>}

OverallMark == <<"OVERALL", ":">>
ArticlesMark == <<"ARTICLES", ":">>

\* ParsePair with the assignment at line 582 turned into an append
ParsePairAppends(sents, pair, n) ==
    IF ~Contains(pair, ":") THEN sents
    ELSE LET parts == StrSplit(pair, ":")
         IN  IF Len(parts) # 2 THEN sents
             ELSE IF ~IntOk(parts[1]) THEN sents
             ELSE Append(sents, Lower(parts[2]))

\* the body of `for pair in articles_line.split()`, lines 577-584, for one pair
ParsePair(sents, pair, n) ==
    IF ~Contains(pair, ":") THEN sents
    ELSE LET parts == StrSplit(pair, ":")
         IN  IF Len(parts) # 2 THEN sents              \* unpacking raises ValueError
             ELSE IF ~IntOk(parts[1]) THEN sents       \* int() raises ValueError
             ELSE LET idx == IntVal(parts[1]) - 1
                  IN  IF 0 <= idx /\ idx < n
                      THEN [sents EXCEPT ![idx + 1] = Lower(parts[2])]
                      ELSE sents

RECURSIVE ParsePairs(_, _, _)
\* the loop of lines 576-584 over the pairs of one ARTICLES: line
ParsePairs(sents, pairs, n) ==
    IF pairs = <<>> THEN sents
    ELSE ParsePairs(ParsePair(sents, Head(pairs), n), Tail(pairs), n)

\* line 572
ParseOverall(ln) == Lower(Strip(StrReplace(ln, OverallMark)))

\* line 574 and 576: the pairs of an ARTICLES: line
ArticlesPairs(ln) == StrSplitWs(Strip(StrReplace(ln, ArticlesMark)))

\* the body of `for line in response_text.split('\n')`, lines 571-584
ParseLine(st, ln, n) ==
    IF StartsWith(ln, OverallMark)
    THEN [st EXCEPT !.overall = ParseOverall(ln)]
    ELSE IF StartsWith(ln, ArticlesMark)
    THEN [st EXCEPT !.sents = ParsePairs(st.sents, ArticlesPairs(ln), n)]
    ELSE st

\* lines 567-568
ParseStart(n) == [overall |-> Neutral, sents |-> [i \in 1..n |-> Neutral]]

RECURSIVE ParseLines(_, _, _)
ParseLines(st, lns, n) ==
    IF lns = <<>> THEN st ELSE ParseLines(ParseLine(st, Head(lns), n), Tail(lns), n)

\* lines 563-584: the whole parse of a reply text
ParseResponse(text, n) == ParseLines(ParseStart(n), StrSplit(Strip(text), "\n"), n)

(***************************************************************************)
(* Replies of the model to the sentiment prompt.  A reply line is a head   *)
(* followed by tokens, each token preceded by one space; a token is either *)
(* an index:label pair or some other text.                                 *)
(***************************************************************************)
Pair(k, lab) == [kind |-> "pair", index |-> k, label |-> lab, text |-> <<>>]
Other(t) == [kind |-> "other", index |-> 0, label |-> "", text |-> t]

\* str(k) for the indices used in replies
IntSyms(k) ==
    CASE k = -1 -> <<"-", "1">>
      [] k = 0 -> <<"0">>
      [] k = 1 -> <<"1">>
      [] k = 2 -> <<"2">>
      [] k = 3 -> <<"3">>
      [] k = 4 -> <<"4">>

RenderToken(t) == IF t.kind = "pair" THEN IntSyms(t.index) \o <<":", t.label>> ELSE t.text

RECURSIVE RenderTokens(_)
RenderTokens(toks) ==
    IF toks = <<>> THEN <<>>
    ELSE <<" ">> \o RenderToken(Head(toks)) \o RenderTokens(Tail(toks))

\* the text of a reply line
RenderLine(l) == l.head \o RenderTokens(l.toks)

RECURSIVE SeqsUpTo(_, _)
\* the sequences over S of length at most k
SeqsUpTo(S, k) ==
    IF k = 0 THEN {<<>>}
    ELSE LET shorter == SeqsUpTo(S, k - 1)
         IN  shorter \cup {Append(q, x) : q \in shorter, x \in S}

TokenVocab ==
    { Pair(1, "bullish"), Pair(3, "bearish"), Pair(2, "Great"),
      Pair(0, "bearish"), Pair(-1, "bullish"),
      Other(<<"garbage">>),
      Other(<<"1", ":", "2", ":", "bullish">>),
      Other(<<"x", ":", "bullish">>),
      Other(<<"ARTICLES", ":", "2", ":", "bearish">>) }

OverallBodies == { <<Other(<<"Bearish">>)>>, <<Other(<<"mixed">>)>> }

ReplyLines ==
    {[head |-> ArticlesMark, toks |-> b] : b \in SeqsUpTo(TokenVocab, MaxTokens)}
    \cup {[head |-> OverallMark, toks |-> b] : b \in OverallBodies}
    \cup {[head |-> <<>>, toks |-> b] : b \in {<<>>, <<Pair(1, "bearish")>>}}
    \cup {[head |-> <<" ">> \o m, toks |-> <<Pair(1, "bearish")>>] :
            m \in {OverallMark, ArticlesMark}}

(***************************************************************************)
(* News entries and articles                                               *)
(***************************************************************************)
NewsCap == 3
FreshHours == 24

\* what date_parser.parse makes of an entry's published field: it raises, or
\* gives an instant, here as whole hours before now
Published(h) == [parses |-> TRUE, hours_ago |-> h]
Unparseable == [parses |-> FALSE, hours_ago |-> 0]

\* the i-th entry of the feed: every field names the entry it belongs to
Entry(i, pub) ==
    [title |-> <<"title", i>>, summary |-> <<"summary", i>>, link |-> <<"link", i>>,
     source |-> <<"source", i>>, published |-> pub]

\* lines 449-455: the article made of an entry (the image field is left out)
ArticleOf(e) ==
    [title |-> e.title, description |-> e.summary, url |-> e.link,
     published |-> e.published, source |-> e.source]

\* EntryFresh with the `continue` of the except branch (lines 444-447) left out
EntryFreshKeepsUnparseable(e) == ~(e.published.hours_ago > FreshHours)

\* lines 433-447: whether an entry passes the date filter
EntryFresh(e) == e.published.parses /\ ~(e.published.hours_ago > FreshHours)

RECURSIVE FilterEntriesNewestLast(_, _)
\* FilterEntries that goes on after the cap and keeps the latest NewsCap articles
FilterEntriesNewestLast(entries, acc) ==
    IF entries = <<>> THEN acc
    ELSE IF ~EntryFresh(Head(entries)) THEN FilterEntriesNewestLast(Tail(entries), acc)
    ELSE LET acc2 == Append(acc, ArticleOf(Head(entries)))
         IN  FilterEntriesNewestLast(Tail(entries),
                                     IF Len(acc2) > NewsCap THEN Tail(acc2) ELSE acc2)

RECURSIVE FilterEntries(_, _)
\* lines 429-474: the loop over the entries, acc the articles collected so far
FilterEntries(entries, acc) ==
    IF entries = <<>> THEN acc
    ELSE IF ~EntryFresh(Head(entries)) THEN FilterEntries(Tail(entries), acc)
    ELSE LET acc2 == Append(acc, ArticleOf(Head(entries)))
         IN  IF Len(acc2) >= NewsCap THEN acc2 ELSE FilterEntries(Tail(entries), acc2)

(***************************************************************************)
(* What a view function returns: jsonify(body), a Response object, or the  *)
(* pair (jsonify(body), status), a tuple                                   *)
(***************************************************************************)
OkResp(body) == [tuple |-> FALSE, status |-> 200, body |-> body]
ErrResp(msg, status) == [tuple |-> TRUE, status |-> status, body |-> [error |-> msg]]
NoResp == [tuple |-> FALSE, status |-> 0, body |-> [nothing |-> TRUE]]

\* x.get_json() raises AttributeError when x is a tuple
GetJsonRaises(r) == r.tuple

\* 'error' in data
HasError(data) == "error" \in DOMAIN data

\* a price that may also be the string 'N/A'
Num(v) == [na |-> FALSE, value |-> v]
NotAvailable == [na |-> TRUE, value |-> 0]

(***************************************************************************)
(* get_stock_price, lines 371-403.  Closes are whole dollars; prices are   *)
(* kept in cents and percentages in hundredths of a percent, the two       *)
(* decimals that round(x, 2) keeps.                                        *)
(***************************************************************************)
Closes == {100, 102}
Histories == SeqsUpTo(Closes, MaxHist)

\* a / b rounded to the nearest integer, for b > 0
RoundDiv(a, b) ==
    LET q == a \div b
        r == a - q * b
    IN  IF 2 * r > b \/ (2 * r = b /\ q % 2 = 1) THEN q + 1 ELSE q

\* ChangePercent with the quotient cut off instead of rounded
ChangePercentTruncates(h) ==
    IF Len(h) >= 2
    THEN (10000 * (h[Len(h)] - h[Len(h) - 1])) \div h[Len(h) - 1]
    ELSE 0

\* lines 385-393
ChangePercent(h) ==
    IF Len(h) >= 2
    THEN RoundDiv(10000 * (h[Len(h)] - h[Len(h) - 1]), h[Len(h) - 1])
    ELSE 0

\* the whole of get_stock_price: h the history fetched, raises whether the fetch
\* or the arithmetic raised
get_stock_price(h, raises) ==
    IF raises THEN ErrResp("Service unavailable", 500)
    ELSE IF Len(h) < 1 THEN ErrResp("Rate limited - wait 2 min", 429)
    ELSE OkResp([current_price |-> Num(100 * h[Len(h)]),
                 change_percent |-> ChangePercent(h)])

(***************************************************************************)
(* get_stock_news, lines 408-486                                           *)
(***************************************************************************)
\* the published field of the i-th entry of the feed
PublishedOf(i) ==
    CASE i % 6 = 2 -> Unparseable
      [] i % 6 = 3 -> Published(FreshHours)
      [] i % 6 = 4 -> Published(FreshHours + 1)
      [] OTHER -> Published(1)

FullFeed == [i \in 1..MaxFeed |-> Entry(i, PublishedOf(i))]
Feeds == {SubSeq(FullFeed, 1, k) : k \in 0..MaxFeed}

CompanyName == "company"

\* the whole of get_stock_news: db_raises whether the row-store lookup raised,
\* found whether it gave a row, search_raises whether the feed fetch raised
\* (search_google_news then answers with no entries, lines 92-94)
get_stock_news(db_raises, found, search_raises, entries) ==
    IF db_raises THEN ErrResp("Failed to fetch news", 500)
    ELSE IF ~found THEN ErrResp("Stock not in watchlist", 404)
    ELSE OkResp([company_name |-> CompanyName,
                 articles |-> FilterEntries(IF search_raises THEN <<>> ELSE entries, <<>>)])

\* the outbound calls, in order
Call(kind, what, titles) == [kind |-> kind, what |-> what, titles |-> titles]
DbCall == Call("db", "company_name", <<>>)
QuoteCall == Call("quote", "history", <<>>)
SearchCall == Call("news", "search", <<>>)

\* a string interpolated into a prompt: what it is, where its text comes from
\* (the row store, the client's request, the news feed, a model reply, a
\* number of the quote, a literal of the program) and whether it is the
\* result of sanitize_for_ai_prompt
Part(what, origin, is_sanitized) == [what |-> what, origin |-> origin, sanitized |-> is_sanitized]
Safe(what, origin) == Part(what, origin, TRUE)
Raw(what, origin) == Part(what, origin, FALSE)

\* a model call: messages.create with a prompt made of these parts
ModelCall(what, titles, prompt) ==
    [kind |-> "model", what |-> what, titles |-> titles, prompt |-> prompt]

\* lines 529-559: the prompt of get_stock_sentiment
SentimentPrompt(price_data, arts) ==
    <<Safe("company_name", "db"), Safe("ticker", "client"),
      Raw("current_price", IF HasError(price_data) THEN "literal" ELSE "number"),
      Raw("price_change", "number")>>
    \o [i \in 1..Len(arts) |-> Safe("title", "feed")]

\* lines 628-642: the prompt of generate_article_summary
HeadlinePrompt == <<Safe("title", "feed"), Safe("description", "feed")>>

\* lines 696-724: the prompt of get_article_detail
DetailPrompt ==
    <<Safe("company_name", "client"), Safe("ticker", "client"), Safe("title", "client"),
      Safe("description", "client"), Raw("price_change", "number")>>

\* line 760: sentiment_data.get('sentiment', 'neutral') is what the nested
\* get_stock_sentiment parsed out of the model's reply (lines 566-589), or
\* one of its literals (lines 509, 517)
SentimentOrigin(sentiment_data) ==
    IF "article_count" \in DOMAIN sentiment_data THEN "model" ELSE "literal"

\* lines 758-788: the prompt of get_daily_summary
DailyPrompt(sentiment_data, arts) ==
    <<Safe("company_name",
           IF "company_name" \in DOMAIN sentiment_data THEN "db" ELSE "client"),
      Raw("price_change", "number"), Raw("current_price", "number"),
      Raw("overall_sentiment", SentimentOrigin(sentiment_data))>>
    \o [i \in 1..Len(arts) |-> Safe("title", "feed")]

\* the calls get_stock_news issues
NewsCalls(db_raises, found) ==
    IF db_raises \/ ~found THEN <<DbCall>> ELSE <<DbCall, SearchCall>>

(***************************************************************************)
(* The request: control                                                    *)
(***************************************************************************)
Views == {"price", "news", "sentiment", "summaries", "detail", "daily"}

Top == stack[Len(stack)]
At(fn, label) == stack # <<>> /\ Top = fn /\ pc[fn] = label

\* the running view function moves on
Goto(label) ==
    /\ pc' = [pc EXCEPT ![Top] = label]
    /\ UNCHANGED <<stack, ret, response>>

\* the running view function returns r: to its caller, or as the response
Return(r) ==
    /\ pc' = [pc EXCEPT ![Top] = "idle"]
    /\ stack' = SubSeq(stack, 1, Len(stack) - 1)
    /\ IF Len(stack) = 1
       THEN response' = r /\ ret' = ret
       ELSE ret' = r /\ response' = response

\* the running view function calls another one
CallView(fn, label) ==
    /\ pc' = [pc EXCEPT ![Top] = label, ![fn] = "key"]
    /\ stack' = Append(stack, fn)
    /\ UNCHANGED <<ret, response>>

NoData == [nothing |-> TRUE]
NoSent == [news_response |-> NoResp, news_data |-> NoData,
           price_response |-> NoResp, price_data |-> NoData]
NoSumm == [news_response |-> NoResp, news_data |-> NoData,
           price_response |-> NoResp, price_data |-> NoData,
           articles |-> <<>>, summaries |-> <<>>]
NoPool == [state |-> <<>>, finished |-> <<>>, collected |-> 0]
NoDaily == [price_response |-> NoResp, price_data |-> NoData,
            sentiment_response |-> NoResp, sentiment_data |-> NoData,
            news_response |-> NoResp, news_data |-> NoData]

SanitizeIdle ==
    /\ text_arg = [none |-> TRUE, runs |-> <<>>]
    /\ sanitized = <<>>
    /\ resanitized = <<>>
    /\ sanitize_pc = "idle"

ParseIdle ==
    /\ articles = <<>>
    /\ line = [head |-> <<>>, toks |-> <<>>]
    /\ lines_left = 0
    /\ lines_read = 0
    /\ overall_sentiment = <<>>
    /\ article_sentiments = <<>>
    /\ parse_pc = "idle"
    /\ parse_result = [sentiment |-> <<>>, article_sentiments |-> <<>>, article_count |-> 0]

\* no request: the state of the request while only the parser is looked at
RequestIdle ==
    /\ api_key = TRUE
    /\ in_watchlist = TRUE
    /\ feed = <<>>
    /\ hist = <<>>
    /\ env_changes = 0
    /\ endpoint = "sentiment"
    /\ stack = <<>>
    /\ pc = [v \in Views |-> "idle"]
    /\ ret = NoResp
    /\ response = NoResp
    /\ calls = <<>>
    /\ sent = NoSent
    /\ summ = NoSumm
    /\ pool = NoPool
    /\ daily = NoDaily

\* a request has been routed to one of the view functions
Init ==
    /\ api_key \in BOOLEAN
    /\ in_watchlist \in BOOLEAN
    /\ feed \in Feeds
    /\ hist \in Histories
    /\ env_changes = 0
    /\ endpoint \in Views
    /\ stack = <<endpoint>>
    /\ pc = [v \in Views |-> IF v = endpoint THEN "key" ELSE "idle"]
    /\ ret = NoResp
    /\ response = NoResp
    /\ calls = <<>>
    /\ sent = NoSent
    /\ summ = NoSumm
    /\ pool = NoPool
    /\ daily = NoDaily
    /\ ParseIdle
    /\ SanitizeIdle

\* the running view function is about to read the feed or the close history
AboutToFetch ==
    /\ stack # <<>>
    /\ \/ pc[Top] \in {"news", "price"}
       \/ Top \in {"news", "price"}

\* the feed or the close history changes while the request is in progress; a
\* change shows only at the next fetch, so it is taken right before one
EnvChange ==
    /\ AboutToFetch
    /\ env_changes < MaxEnvChanges
    /\ env_changes' = env_changes + 1
    /\ \/ feed' \in Feeds \ {feed} /\ hist' = hist
       \/ hist' \in Histories \ {hist} /\ feed' = feed
    /\ UNCHANGED <<api_key, in_watchlist, ctlVars, locVars, pureVars>>

\* lines 371-403 as the routed view function
PriceView ==
    /\ At("price", "key")
    /\ \E raises \in BOOLEAN : Return(get_stock_price(hist, raises))
    /\ calls' = Append(calls, QuoteCall)
    /\ UNCHANGED <<endpoint, envVars, locVars, pureVars>>

\* lines 408-486 as the routed view function
NewsView ==
    /\ At("news", "key")
    /\ \E db_raises \in BOOLEAN, search_raises \in BOOLEAN :
          /\ Return(get_stock_news(db_raises, in_watchlist, search_raises, feed))
          /\ calls' = calls \o NewsCalls(db_raises, in_watchlist)
    /\ UNCHANGED <<endpoint, envVars, locVars, pureVars>>

(***************************************************************************)
(* get_stock_sentiment, lines 491-598                                      *)
(***************************************************************************)
KeyMissing == ErrResp("Claude API key not configured", 500)
SentimentFailed == ErrResp("Failed to generate sentiment analysis", 500)

\* replies of the model to the sentiment prompt, as texts
RECURSIVE RenderText(_)
RenderText(lns) ==
    IF lns = <<>> THEN <<>>
    ELSE IF Len(lns) = 1 THEN RenderLine(lns[1])
    ELSE RenderLine(Head(lns)) \o <<"\n">> \o RenderText(Tail(lns))

SentimentReplies ==
    { RenderText(<<[head |-> OverallMark, toks |-> <<Other(<<"bullish">>)>>],
                   [head |-> ArticlesMark,
                    toks |-> <<Pair(1, "bullish"), Other(<<"garbage">>), Pair(3, "bearish")>>]>>),
      RenderText(<<[head |-> OverallMark, toks |-> <<Other(<<"Bearish">>)>>],
                   [head |-> ArticlesMark, toks |-> <<Pair(2, "bearish"), Pair(1, "Neutral")>>]>>),
      RenderText(<<[head |-> ArticlesMark, toks |-> <<Pair(0, "bearish"), Pair(2, "Great")>>],
                   [head |-> OverallMark, toks |-> <<Other(<<"mixed">>)>>]>>) }

\* SignSentiment with the comparison of line 517 made non-strict
SignSentimentNonStrict(price_change) ==
    IF price_change >= 0 THEN <<"bullish">>
    ELSE <<"bearish">>

\* line 517
SignSentiment(price_change) ==
    IF price_change > 0 THEN <<"bullish">>
    ELSE IF price_change < 0 THEN <<"bearish">>
    ELSE <<"neutral">>

\* lines 508-513
NoDataBody ==
    [sentiment |-> Neutral, article_sentiments |-> <<>>, price_change |-> 0,
     current_price |-> NotAvailable]

\* lines 516-523
PriceOnlyBody(price_data) ==
    [sentiment |-> SignSentiment(price_data.change_percent), article_sentiments |-> <<>>,
     price_change |-> price_data.change_percent, current_price |-> price_data.current_price]

\* lines 586-594
FullSentimentBody(news_data, price_data, parsed) ==
    [company_name |-> news_data.company_name,
     sentiment |-> parsed.overall,
     article_sentiments |-> parsed.sents,
     price_change |-> IF HasError(price_data) THEN 0 ELSE price_data.change_percent,
     current_price |-> IF HasError(price_data) THEN NotAvailable ELSE price_data.current_price,
     article_count |-> Len(news_data.articles)]

\* 'error' in news_data or not news_data.get('articles')
NoNews(news_data) == HasError(news_data) \/ news_data.articles = <<>>

Titles(arts) == [i \in 1..Len(arts) |-> arts[i].title]

\* lines 493-495
SentKey ==
    /\ At("sentiment", "key")
    /\ IF ~api_key THEN Return(KeyMissing) ELSE Goto("news")
    /\ UNCHANGED <<endpoint, calls, envVars, locVars, pureVars>>

\* lines 498-499
SentNews ==
    /\ At("sentiment", "news")
    /\ \E db_raises \in BOOLEAN, search_raises \in BOOLEAN :
          LET r == get_stock_news(db_raises, in_watchlist, search_raises, feed)
          IN  /\ calls' = calls \o NewsCalls(db_raises, in_watchlist)
              /\ IF GetJsonRaises(r)
                 THEN /\ Return(SentimentFailed)
                      /\ sent' = [sent EXCEPT !.news_response = r]
                 ELSE /\ Goto("price")
                      /\ sent' = [sent EXCEPT !.news_response = r, !.news_data = r.body]
    /\ UNCHANGED <<endpoint, envVars, summ, pool, daily, pureVars>>

\* lines 502-503
SentPrice ==
    /\ At("sentiment", "price")
    /\ \E raises \in BOOLEAN :
          LET r == get_stock_price(hist, raises)
          IN  /\ calls' = Append(calls, QuoteCall)
              /\ IF GetJsonRaises(r)
                 THEN /\ Return(SentimentFailed)
                      /\ sent' = [sent EXCEPT !.price_response = r]
                 ELSE /\ Goto("decide")
                      /\ sent' = [sent EXCEPT !.price_response = r, !.price_data = r.body]
    /\ UNCHANGED <<endpoint, envVars, summ, pool, daily, pureVars>>

\* lines 505-598: the early returns, or the model call and the parse of its reply
SentDecide ==
    /\ At("sentiment", "decide")
    /\ IF NoNews(sent.news_data)
       THEN /\ IF HasError(sent.price_data)
               THEN Return(OkResp(NoDataBody))
               ELSE Return(OkResp(PriceOnlyBody(sent.price_data)))
            /\ calls' = calls
       ELSE /\ calls' = Append(calls, ModelCall("sentiment", Titles(sent.news_data.articles),
                                              SentimentPrompt(sent.price_data,
                                                              sent.news_data.articles)))
            /\ \/ Return(SentimentFailed)
               \/ \E text \in SentimentReplies :
                     Return(OkResp(FullSentimentBody(sent.news_data, sent.price_data,
                               ParseResponse(text, Len(sent.news_data.articles)))))
    /\ UNCHANGED <<endpoint, envVars, locVars, pureVars>>

(***************************************************************************)
(* get_article_summaries, lines 603-683                                    *)
(***************************************************************************)
MaxWorkers == 5
SummariesFailed == ErrResp("Failed to generate article summaries", 500)

\* what the model answers to the headline prompt of an article: a text that
\* depends on the title and the description the prompt carries
HeadlineOf(article) == [text |-> "model reply", about |-> <<article.title, article.description>>]
ErrorHeadline == [text |-> "Error generating summary", about |-> <<>>]

\* lines 648-654, and lines 667-673 with the sentinel
SummaryRecord(headline, article) ==
    [headline |-> headline, url |-> article.url, source |-> article.source,
     title |-> article.title, description |-> article.description]

\* lines 606-608
SummKey ==
    /\ At("summaries", "key")
    /\ IF ~api_key THEN Return(KeyMissing) ELSE Goto("news")
    /\ UNCHANGED <<endpoint, calls, envVars, locVars, pureVars>>

\* lines 611-612
SummNews ==
    /\ At("summaries", "news")
    /\ \E db_raises \in BOOLEAN, search_raises \in BOOLEAN :
          LET r == get_stock_news(db_raises, in_watchlist, search_raises, feed)
          IN  /\ calls' = calls \o NewsCalls(db_raises, in_watchlist)
              /\ IF GetJsonRaises(r)
                 THEN /\ Return(SummariesFailed)
                      /\ summ' = [summ EXCEPT !.news_response = r]
                 ELSE /\ Goto("price")
                      /\ summ' = [summ EXCEPT !.news_response = r, !.news_data = r.body]
    /\ UNCHANGED <<endpoint, envVars, sent, pool, daily, pureVars>>

\* lines 614-621
SummPrice ==
    /\ At("summaries", "price")
    /\ \E raises \in BOOLEAN :
          LET r == get_stock_price(hist, raises)
          IN  /\ calls' = Append(calls, QuoteCall)
              /\ IF GetJsonRaises(r)
                 THEN /\ Return(SummariesFailed)
                      /\ summ' = [summ EXCEPT !.price_response = r]
                 ELSE IF NoNews(summ.news_data)
                 THEN /\ Return(OkResp([summaries |-> <<>>]))
                      /\ summ' = [summ EXCEPT !.price_response = r, !.price_data = r.body]
                 ELSE /\ Goto("submit")
                      /\ summ' = [summ EXCEPT !.price_response = r, !.price_data = r.body,
                                              !.articles = summ.news_data.articles]
    /\ UNCHANGED <<endpoint, envVars, sent, pool, daily, pureVars>>

\* line 659: executor.submit for the next article
SummSubmit ==
    /\ At("summaries", "submit")
    /\ pool' = [pool EXCEPT !.state = Append(pool.state, "pending")]
    /\ IF Len(pool.state) + 1 = Len(summ.articles) THEN Goto("collect") ELSE Goto("submit")
    /\ UNCHANGED <<endpoint, calls, envVars, sent, summ, daily, pureVars>>

Running == {i \in 1..Len(pool.state) : pool.state[i] = "running"}

\* a worker thread of the pool takes a submitted call: lines 628-644, the model
\* call of generate_article_summary is issued
WorkerStart(i) ==
    /\ pool.state[i] = "pending"
    /\ Cardinality(Running) < MaxWorkers
    /\ pool' = [pool EXCEPT !.state[i] = "running"]
    /\ calls' = Append(calls, ModelCall("headline", <<summ.articles[i].title>>,
                                          HeadlinePrompt))
    /\ UNCHANGED <<endpoint, stack, pc, ret, response, envVars, sent, summ, daily, pureVars>>

\* the call of a worker returns or raises: its future is done
WorkerFinish(i) ==
    /\ pool.state[i] = "running"
    /\ \E outcome \in {"returned", "raised"} :
          pool' = [pool EXCEPT !.state[i] = outcome, !.finished = Append(pool.finished, i)]
    /\ UNCHANGED <<ctlVars, envVars, sent, summ, daily, pureVars>>

\* CollectOne with the except branch of lines 664-673 only logging the error
CollectOneDropsFailed(summaries, arts, i, outcome) ==
    IF outcome = "returned"
    THEN Append(summaries, SummaryRecord(HeadlineOf(arts[i]), arts[i]))
    ELSE summaries

\* lines 660-673: as_completed yields the next finished future
CollectOne(summaries, arts, i, outcome) ==
    IF outcome = "returned"
    THEN Append(summaries, SummaryRecord(HeadlineOf(arts[i]), arts[i]))
    ELSE Append(summaries, SummaryRecord(ErrorHeadline, arts[i]))

SummCollect ==
    /\ At("summaries", "collect")
    /\ pool.collected < Len(pool.finished)
    /\ LET i == pool.finished[pool.collected + 1]
       IN  summ' = [summ EXCEPT
                      !.summaries = CollectOne(summ.summaries, summ.articles, i, pool.state[i])]
    /\ pool' = [pool EXCEPT !.collected = pool.collected + 1]
    /\ UNCHANGED <<ctlVars, envVars, sent, daily, pureVars>>

\* lines 675-679, once as_completed has yielded every future
SummReturn ==
    /\ At("summaries", "collect")
    /\ pool.collected = Len(summ.articles)
    /\ Return(OkResp([company_name |-> summ.news_data.company_name,
                      summaries |-> summ.summaries]))
    /\ UNCHANGED <<endpoint, calls, envVars, locVars, pureVars>>

(***************************************************************************)
(* get_article_detail, lines 689-736                                       *)
(***************************************************************************)
DetailFailed == ErrResp("Failed to generate article detail", 500)

\* lines 692-694
DetailKey ==
    /\ At("detail", "key")
    /\ IF ~api_key THEN Return(KeyMissing) ELSE Goto("model")
    /\ UNCHANGED <<endpoint, calls, envVars, locVars, pureVars>>

\* lines 696-736: reading the posted JSON or formatting the prompt may raise
\* before the model is called; the model call returns or raises
DetailModel ==
    /\ At("detail", "model")
    /\ \/ Return(DetailFailed) /\ calls' = calls
       \/ /\ calls' = Append(calls, ModelCall("detail", <<>>, DetailPrompt))
          /\ \/ Return(DetailFailed)
             \/ Return(OkResp([detail |-> "model reply"]))
    /\ UNCHANGED <<endpoint, envVars, locVars, pureVars>>

(***************************************************************************)
(* get_daily_summary, lines 741-801                                        *)
(***************************************************************************)
DailyFailed == ErrResp("Failed to generate daily summary", 500)
MarketDataUnavailable == OkResp([daily_summary |-> "Market data unavailable"])

\* DailyKey with the quote fetched before the credential is looked at
DailyKeyAfterFetch ==
    /\ At("daily", "key")
    /\ calls' = Append(calls, QuoteCall)
    /\ IF ~api_key THEN Return(KeyMissing) ELSE Goto("price")
    /\ UNCHANGED <<endpoint, envVars, locVars, pureVars>>

\* lines 744-746
DailyKey ==
    /\ At("daily", "key")
    /\ IF ~api_key THEN Return(KeyMissing) ELSE Goto("price")
    /\ UNCHANGED <<endpoint, calls, envVars, locVars, pureVars>>

\* lines 749-750
DailyPrice ==
    /\ At("daily", "price")
    /\ \E raises \in BOOLEAN :
          LET r == get_stock_price(hist, raises)
          IN  /\ calls' = Append(calls, QuoteCall)
              /\ IF GetJsonRaises(r)
                 THEN /\ Return(DailyFailed)
                      /\ daily' = [daily EXCEPT !.price_response = r]
                 ELSE /\ Goto("sentiment")
                      /\ daily' = [daily EXCEPT !.price_response = r, !.price_data = r.body]
    /\ UNCHANGED <<endpoint, envVars, sent, summ, pool, pureVars>>

\* line 752: the call of get_stock_sentiment
DailyCallSentiment ==
    /\ At("daily", "sentiment")
    /\ CallView("sentiment", "after_sentiment")
    /\ UNCHANGED <<endpoint, calls, envVars, locVars, pureVars>>

\* lines 753-756
DailyAfterSentiment ==
    /\ At("daily", "after_sentiment")
    /\ IF GetJsonRaises(ret)
       THEN /\ Return(DailyFailed)
            /\ daily' = [daily EXCEPT !.sentiment_response = ret]
       ELSE /\ daily' = [daily EXCEPT !.sentiment_response = ret, !.sentiment_data = ret.body]
            /\ IF HasError(daily.price_data) THEN Return(MarketDataUnavailable) ELSE Goto("news")
    /\ UNCHANGED <<endpoint, calls, envVars, sent, summ, pool, pureVars>>

\* lines 764-766
DailyNews ==
    /\ At("daily", "news")
    /\ \E db_raises \in BOOLEAN, search_raises \in BOOLEAN :
          LET r == get_stock_news(db_raises, in_watchlist, search_raises, feed)
          IN  /\ calls' = calls \o NewsCalls(db_raises, in_watchlist)
              /\ IF GetJsonRaises(r)
                 THEN /\ Return(DailyFailed)
                      /\ daily' = [daily EXCEPT !.news_response = r]
                 ELSE /\ Goto("model")
                      /\ daily' = [daily EXCEPT !.news_response = r, !.news_data = r.body]
    /\ UNCHANGED <<endpoint, envVars, sent, summ, pool, pureVars>>

\* articles[:3]
FirstThree(arts) == SubSeq(arts, 1, IF Len(arts) < 3 THEN Len(arts) ELSE 3)

\* lines 768-801: the model call returns or raises
DailyModel ==
    /\ At("daily", "model")
    /\ calls' = Append(calls, ModelCall("daily", Titles(FirstThree(daily.news_data.articles)),
                                        DailyPrompt(daily.sentiment_data,
                                                    FirstThree(daily.news_data.articles))))
    /\ \/ Return(DailyFailed)
       \/ Return(OkResp([daily_summary |-> "model reply"]))
    /\ UNCHANGED <<endpoint, envVars, locVars, pureVars>>

Next ==
    \/ EnvChange
    \/ PriceView
    \/ NewsView
    \/ SentKey
    \/ SentNews
    \/ SentPrice
    \/ SentDecide
    \/ SummKey
    \/ SummNews
    \/ SummPrice
    \/ SummSubmit
    \/ \E i \in 1..Len(pool.state) : WorkerStart(i)
    \/ \E i \in 1..Len(pool.state) : WorkerFinish(i)
    \/ SummCollect
    \/ SummReturn
    \/ DetailKey
    \/ DetailModel
    \/ DailyKey
    \/ DailyPrice
    \/ DailyCallSentiment
    \/ DailyAfterSentiment
    \/ DailyNews
    \/ DailyModel

Spec == Init /\ [][Next]_vars

(***************************************************************************)
(* Claims about the requests (Spec)                                        *)
(***************************************************************************)
Done(view) == endpoint = view /\ stack = <<>>

ModelCalls(what) == {i \in 1..Len(calls) : calls[i].kind = "model" /\ calls[i].what = what}
AnyModelCall == \E i \in 1..Len(calls) : calls[i].kind = "model"

\* get_article_summaries has returned a summaries list made by the fan-out
FanOutDone == Done("summaries") /\ pool.state # <<>>

\* C1: whatever the completion order of the headline workers, the returned
\* summaries list is positionally aligned with the input articles:
\* summaries[i] is the record of articles[i].
C1_SummariesAlignedWithInput ==
    FanOutDone /\ ~response.tuple =>
        /\ Len(response.body.summaries) = Len(summ.articles)
        /\ \A i \in 1..Len(summ.articles) :
              LET r == response.body.summaries[i]
                  a == summ.articles[i]
              IN  /\ r.url = a.url
                  /\ r.title = a.title
                  /\ r.source = a.source
                  /\ r.description = a.description

\* C2: if any subset of the headline generations raises, the request still
\* answers with a summaries list of exactly N records, one per input article:
\* the record of a failing article carries the sentinel headline and that
\* article's own fields, the record of any other article carries the headline
\* its own model call returned, and every sibling call has still been made
\* and has run to its end.
C2_FailuresAreIsolated ==
    FanOutDone =>
        /\ ~response.tuple
        /\ Len(response.body.summaries) = Len(summ.articles)
        /\ \A i \in 1..Len(summ.articles) :
              /\ pool.state[i] \in {"returned", "raised"}
              /\ Cardinality({c \in ModelCalls("headline") :
                                calls[c].titles = <<summ.articles[i].title>>}) = 1
              /\ Cardinality({j \in 1..Len(response.body.summaries) :
                                response.body.summaries[j].url = summ.articles[i].url}) = 1
              /\ \E j \in 1..Len(response.body.summaries) :
                    LET r == response.body.summaries[j]
                        a == summ.articles[i]
                    IN  /\ r.url = a.url /\ r.title = a.title
                        /\ r.source = a.source /\ r.description = a.description
                        /\ pool.state[i] = "raised" => r.headline = ErrorHeadline
                        /\ pool.state[i] = "returned" =>
                              /\ r.headline.text = "model reply"
                              /\ r.headline.about = <<a.title, a.description>>

\* three articles, the first and the last generation raised, the second did not
C2_Witness ==
    /\ FanOutDone
    /\ pool.state = <<"raised", "returned", "raised">>
    /\ pool.finished = <<3, 2, 1>>

\* get_stock_sentiment has returned, to the client or to get_daily_summary
SentReturned ==
    /\ pc["sentiment"] = "idle"
    /\ \/ Done("sentiment")
       \/ endpoint = "daily" /\ ret # NoResp

SentResult == IF endpoint = "sentiment" THEN response ELSE ret

\* the stages get_stock_sentiment called answered
NewsAnswered == sent.news_response # NoResp
PriceAnswered == sent.price_response # NoResp

\* C6: with the credential set, no articles from the news stage and a quote
\* from the price stage, get_stock_sentiment answers without a model call:
\* bullish for a positive change_percent, bearish for a negative one, neutral
\* for zero, with no article sentiments and the quote's price and change.
C6_PriceOnlySentiment ==
    (/\ SentReturned /\ api_key
     /\ NewsAnswered /\ ~sent.news_response.tuple
     /\ sent.news_response.body.articles = <<>>
     /\ PriceAnswered /\ ~sent.price_response.tuple) =>
        LET quote == sent.price_response.body
            body == SentResult.body
        IN  /\ ~SentResult.tuple
            /\ ModelCalls("sentiment") = {}
            /\ quote.change_percent > 0 => body.sentiment = <<"bullish">>
            /\ quote.change_percent < 0 => body.sentiment = <<"bearish">>
            /\ quote.change_percent = 0 => body.sentiment = <<"neutral">>
            /\ body.article_sentiments = <<>>
            /\ body.price_change = quote.change_percent
            /\ body.current_price = quote.current_price

\* no news, the closes went from 100 to 100: neutral
C6_Witness ==
    /\ Done("sentiment")
    /\ NewsAnswered /\ ~sent.news_response.tuple
    /\ sent.news_response.body.articles = <<>>
    /\ PriceAnswered /\ ~sent.price_response.tuple
    /\ sent.price_response.body.change_percent = 0
    /\ response.body.sentiment = <<"neutral">>

\* C7: with no news (no articles, or an error of the news stage) and no
\* price data (the price stage answered 429 or 500), get_stock_sentiment
\* answers with the neutral payload with no article sentiments, without a
\* model call and without an error.
C7_NoDataIsNeutral ==
    (/\ SentReturned /\ api_key
     /\ NewsAnswered
     /\ sent.news_response.tuple \/ sent.news_response.body.articles = <<>>
     /\ PriceAnswered /\ sent.price_response.tuple) =>
        /\ ~SentResult.tuple
        /\ SentResult.body.sentiment = <<"neutral">>
        /\ SentResult.body.article_sentiments = <<>>
        /\ ModelCalls("sentiment") = {}

\* C8: whenever the price stage tells get_daily_summary that price data is
\* unavailable (429 or 500), the answer is {daily_summary: 'Market data
\* unavailable'} and no model call is made in the request.
C8_NoPriceShortCircuits ==
    (Done("daily") /\ daily.price_response.tuple) =>
        /\ response = MarketDataUnavailable
        /\ ~AnyModelCall

\* the model call inside the nested get_stock_sentiment failed
NestedModelCallFailed ==
    /\ ModelCalls("sentiment") # {}
    /\ daily.sentiment_response = SentimentFailed

\* C9: when the price stage succeeds and the model call inside the nested
\* get_stock_sentiment fails, get_daily_summary does not fail with it: the
\* request goes on past the sentiment stage and does not answer with its
\* error because of that failure.
C9_NestedFailureContained ==
    (/\ Done("daily")
     /\ daily.price_response # NoResp /\ ~daily.price_response.tuple
     /\ NestedModelCallFailed) =>
        \/ ~response.tuple
        \/ calls[Len(calls)] # ModelCall("sentiment", calls[Len(calls)].titles,
                                         calls[Len(calls)].prompt)

AIViews == {"sentiment", "summaries", "detail", "daily"}

\* C10: in every AI-backed view function the credential is checked first:
\* without CLAUDE_API_KEY no row-store lookup, quote fetch, news search or
\* model call is ever issued, and the answer is the 500 'Claude API key not
\* configured'.
C10_CredentialCheckedFirst ==
    (endpoint \in AIViews /\ ~api_key) =>
        /\ calls = <<>>
        /\ stack = <<>> => response = KeyMissing

C10_Witness ==
    /\ Done("daily") /\ ~api_key
    /\ response = KeyMissing
    /\ in_watchlist /\ feed # <<>> /\ hist # <<>>

\* the origins of text that comes from outside the program
ExternalOrigins == {"db", "client", "feed", "model"}

\* C15: in every prompt sent to the model by any endpoint, every
\* interpolated string whose text comes from outside (the row store, the
\* client, the news feed, a model reply) is the result of
\* sanitize_for_ai_prompt.
C15_PromptsSanitized ==
    \A i \in 1..Len(calls) :
        calls[i].kind = "model" =>
            \A j \in 1..Len(calls[i].prompt) :
                calls[i].prompt[j].origin \in ExternalOrigins => calls[i].prompt[j].sanitized

\* how many calls of a kind the request has issued
CallCount(kind, what) ==
    Cardinality({i \in 1..Len(calls) : calls[i].kind = kind /\ calls[i].what = what})

\* C16: no outbound call is issued twice within one request: at most one
\* quote fetch, at most one news search, at most one model call for each of
\* the sentiment, the article detail and the daily rationale, at most one
\* headline call for an article, and exactly one headline call per input
\* article once get_article_summaries has returned its summaries.
C16_NoCallRepeated ==
    /\ CallCount("quote", "history") <= 1
    /\ CallCount("news", "search") <= 1
    /\ \A what \in {"sentiment", "detail", "daily"} : Cardinality(ModelCalls(what)) <= 1
    /\ \A c \in ModelCalls("headline"), d \in ModelCalls("headline") :
          calls[c].titles = calls[d].titles => c = d
    /\ FanOutDone => Cardinality(ModelCalls("headline")) = Len(summ.articles)

\* the news stage gave get_article_summaries a list of articles
SummNewsListed == summ.news_response # NoResp /\ ~summ.news_response.tuple

\* C17: when the news stage yields at least one article and the price stage
\* answers with its error (429 or 500), get_stock_sentiment and
\* get_article_summaries do not fail: the sentiment answer has price_change 0,
\* current_price 'N/A' and a sentiment for every article, the summaries
\* answer has a record for every article; and get_article_summaries with no
\* articles answers with an empty summaries list whatever the price stage
\* answered.
C17_PriceErrorFallsBack ==
    /\ (/\ SentReturned /\ api_key
        /\ NewsAnswered /\ ~sent.news_response.tuple
        /\ sent.news_response.body.articles # <<>>
        /\ PriceAnswered /\ sent.price_response.tuple) =>
           /\ ~SentResult.tuple
           /\ SentResult.body.price_change = 0
           /\ SentResult.body.current_price = NotAvailable
           /\ Len(SentResult.body.article_sentiments) = Len(sent.news_response.body.articles)
    /\ (/\ Done("summaries") /\ SummNewsListed
        /\ summ.news_response.body.articles # <<>>
        /\ summ.price_response # NoResp /\ summ.price_response.tuple) =>
           /\ ~response.tuple
           /\ Len(response.body.summaries) = Len(summ.news_response.body.articles)
    /\ (/\ Done("summaries") /\ SummNewsListed
        /\ summ.news_response.body.articles = <<>>
        /\ summ.price_response # NoResp) =>
           response = OkResp([summaries |-> <<>>])

\* C18: in a get_daily_summary request that gets as far as its model call,
\* the quote written into the rationale prompt is the quote the nested
\* get_stock_sentiment classified against, and the headlines of the prompt
\* are taken from the article list that sentiment was computed from, even
\* when the close history or the feed changes during the request.
C18_DailyInputsConsistent ==
    (Done("daily") /\ ModelCalls("daily") # {}) =>
        /\ daily.price_data = sent.price_data
        /\ daily.news_data.articles = sent.news_data.articles

(***************************************************************************)
(* The parse of a sentiment reply, step by step                            *)
(***************************************************************************)
NoLine == [head |-> <<>>, toks |-> <<>>]

FreshArticles == [i \in 1..NewsCap |-> ArticleOf(Entry(i, Published(1)))]

\* line 563: response_text is stripped, so its first line does not start and
\* its last line does not end with whitespace, and either is empty only when
\* the text is
LineOfStripped(l, first, last) ==
    LET t == RenderLine(l)
    IN  IF t = <<>> THEN first /\ last
        ELSE /\ first => Head(t) \notin Whitespace
             /\ last => t[Len(t)] \notin Whitespace

\* line 563: the reply has arrived; lines 567-568
ParseBegin ==
    /\ parse_pc = "start"
    /\ overall_sentiment' = ParseStart(Len(articles)).overall
    /\ article_sentiments' = ParseStart(Len(articles)).sents
    /\ lines_left' \in 1..MaxLines
    /\ parse_pc' = "for"
    /\ UNCHANGED <<articles, line, lines_read, parse_result, reqVars, sanVars>>

\* line 570: the next line of the reply
ParseNextLine ==
    /\ parse_pc = "for"
    /\ lines_left > 0
    /\ line' \in {l \in ReplyLines : LineOfStripped(l, lines_read = 0, lines_left = 1)}
    /\ lines_left' = lines_left - 1
    /\ lines_read' = lines_read + 1
    /\ parse_pc' = "body"
    /\ UNCHANGED <<articles, overall_sentiment, article_sentiments, parse_result, reqVars, sanVars>>

\* lines 571-584 on the current line
ParseBody ==
    /\ parse_pc = "body"
    /\ \E st \in {ParseLine([overall |-> overall_sentiment, sents |-> article_sentiments],
                             RenderLine(line), Len(articles))} :
          /\ overall_sentiment' = st.overall
          /\ article_sentiments' = st.sents
    /\ line' = NoLine
    /\ parse_pc' = "for"
    /\ UNCHANGED <<articles, lines_left, lines_read, parse_result, reqVars, sanVars>>

\* lines 586-594
SentimentBody(overall, sents, arts) ==
    [sentiment |-> overall, article_sentiments |-> sents, article_count |-> Len(arts)]

ParseReturn ==
    /\ parse_pc = "for"
    /\ lines_left = 0
    /\ parse_result' = SentimentBody(overall_sentiment, article_sentiments, articles)
    /\ parse_pc' = "done"
    /\ UNCHANGED <<articles, line, lines_left, lines_read, overall_sentiment,
                   article_sentiments, reqVars, sanVars>>

ParseInit ==
    /\ articles \in {SubSeq(FreshArticles, 1, k) : k \in 1..NewsCap}
    /\ line = NoLine
    /\ lines_left = 0
    /\ lines_read = 0
    /\ overall_sentiment = <<>>
    /\ article_sentiments = <<>>
    /\ parse_pc = "start"
    /\ parse_result = SentimentBody(<<>>, <<>>, <<>>)
    /\ RequestIdle
    /\ SanitizeIdle

ParseNext == ParseBegin \/ ParseNextLine \/ ParseBody \/ ParseReturn

SpecParse == ParseInit /\ [][ParseNext]_vars

(***************************************************************************)
(* Claims about the parse of the sentiment reply (SpecParse)               *)
(***************************************************************************)

\* C3: whenever the model call returned text, whatever its lines hold, the
\* returned article_sentiments list is exactly as long as the input article
\* list, and so is article_count.
C3_SentimentsLengthIsArticleCount ==
    /\ parse_pc \in {"for", "body", "done"} => Len(article_sentiments) = Len(articles)
    /\ parse_pc = "done" =>
          /\ Len(parse_result.article_sentiments) = Len(articles)
          /\ parse_result.article_count = Len(articles)

\* a reply with a line OVERALL: mixed and pairs for every one of three
\* articles has been parsed and returned
C3_Witness ==
    /\ parse_pc = "done"
    /\ parse_result = SentimentBody(<<"mixed">>,
                                    <<<<"bullish">>, <<"great">>, <<"bearish">>>>, articles)
    /\ Len(articles) = 3

\* C4: every sentiment value returned is one of bullish, bearish, neutral:
\* the overall sentiment and every element of article_sentiments.
C4_SentimentsInEnum ==
    parse_pc = "done" =>
        /\ parse_result.sentiment \in SentimentEnum
        /\ \A i \in 1..Len(parse_result.article_sentiments) :
              parse_result.article_sentiments[i] \in SentimentEnum

\* The decision table of the reply grammar for one token of an ARTICLES: line
TableToken(sents, t, n) ==
    IF t.kind = "pair" /\ 1 <= t.index /\ t.index <= n
    THEN [sents EXCEPT ![t.index] = <<LowerSym(t.label)>>]
    ELSE sents

RECURSIVE TableTokens(_, _, _)
TableTokens(sents, toks, n) ==
    IF toks = <<>> THEN sents
    ELSE TableTokens(TableToken(sents, Head(toks), n), Tail(toks), n)

\* ... and for one line: only a line that starts with ARTICLES: assigns
TableLine(sents, l, n) ==
    IF l.head = ArticlesMark THEN TableTokens(sents, l.toks, n) ELSE sents

\* C5: the parser follows the decision table: on each line, a token that is
\* no well-formed index:label pair is skipped, a pair with 1 <= k <= n sets
\* position k, any other pair is ignored, every other position keeps its
\* value, and a line without the ARTICLES: head changes no position.
C5_ParserFollowsTable ==
    [][parse_pc = "body" =>
          article_sentiments' = TableLine(article_sentiments, line, Len(articles))]_vars

(***************************************************************************)
(* The freshness filter of get_stock_news on any list of entries           *)
(***************************************************************************)
\* what the published field of an entry may be: unparseable or missing (the
\* parse of '' raises too), or a date 1, 24 or 25 hours before now, as the
\* timezone-naive value of lines 434-437 that is compared with the cutoff
PublishedKinds == {Unparseable, Published(1), Published(FreshHours), Published(FreshHours + 1)}

EntryLists ==
    {[i \in 1..Len(kinds) |-> Entry(i, kinds[i])] : kinds \in SeqsUpTo(PublishedKinds, MaxFeed)}

\* the row lookup found the company and the search returned its entries
NewsInit ==
    /\ api_key = TRUE
    /\ in_watchlist = TRUE
    /\ feed \in EntryLists
    /\ hist = <<>>
    /\ env_changes = 0
    /\ endpoint = "news"
    /\ stack = <<"news">>
    /\ pc = [v \in Views |-> IF v = "news" THEN "entries" ELSE "idle"]
    /\ ret = NoResp
    /\ response = NoResp
    /\ calls = <<DbCall, SearchCall>>
    /\ sent = NoSent
    /\ summ = NoSumm
    /\ pool = NoPool
    /\ daily = NoDaily
    /\ ParseIdle
    /\ SanitizeIdle

\* lines 426-482: the loop over the entries and the return of the articles
NewsFilter ==
    /\ At("news", "entries")
    /\ Return(OkResp([company_name |-> CompanyName,
                      articles |-> FilterEntries(feed, <<>>)]))
    /\ UNCHANGED <<endpoint, calls, envVars, locVars, pureVars>>

SpecNews == NewsInit /\ [][NewsFilter]_vars

(***************************************************************************)
(* Claims about the freshness filter (SpecNews)                            *)
(***************************************************************************)
NewsReturned == Done("news")

\* C11: for every list of entries the returned article list has at most
\* NewsCap articles, every returned article is made of an entry of the list
\* whose published date parsed to a time not before the cutoff of 24 hours
\* ago, no entry with an unparseable or missing date is returned, and such
\* an entry does not turn the answer into an error.
C11_FilterCapAndCutoff ==
    NewsReturned =>
        /\ ~response.tuple
        /\ Len(response.body.articles) <= NewsCap
        /\ \A j \in 1..Len(response.body.articles) :
              LET a == response.body.articles[j]
              IN  /\ \E i \in 1..Len(feed) : a = ArticleOf(feed[i])
                  /\ a.published.parses
                  /\ a.published.hours_ago <= FreshHours

\* six entries, the second and the fifth unparseable, the others fresh: the
\* first, the third and the fourth are returned
C11_Witness ==
    /\ NewsReturned
    /\ Len(feed) = 6
    /\ feed[2].published = Unparseable /\ feed[5].published = Unparseable
    /\ \A i \in {1, 3, 4, 6} : feed[i].published = Published(FreshHours)
    /\ Titles(response.body.articles) = <<feed[1].title, feed[3].title, feed[4].title>>

\* the positions of the entries with a parseable date not before the cutoff
Qualifying == {i \in 1..Len(feed) : feed[i].published.parses
                                     /\ feed[i].published.hours_ago <= FreshHours}

\* C12: the returned articles are exactly the first NewsCap qualifying
\* entries in source order (all of them when fewer qualify): the j-th
\* returned article is made of the j-th qualifying entry.
C12_FirstCapInSourceOrder ==
    NewsReturned =>
        LET arts == response.body.articles
        IN  /\ Len(arts) = IF Cardinality(Qualifying) < NewsCap
                           THEN Cardinality(Qualifying) ELSE NewsCap
            /\ \A j \in 1..Len(arts) :
                  \E i \in Qualifying :
                      /\ arts[j] = ArticleOf(feed[i])
                      /\ Cardinality({k \in Qualifying : k < i}) = j - 1

\* six entries, two unparseable, the first stale, the last three fresh, the
\* newest one last: the three fresh ones are returned in source order
C12_Witness ==
    /\ NewsReturned
    /\ Len(feed) = 6
    /\ feed[1].published = Published(FreshHours + 1)
    /\ feed[2].published = Unparseable /\ feed[4].published = Unparseable
    /\ feed[3].published = Published(FreshHours)
    /\ feed[5].published = Published(FreshHours)
    /\ feed[6].published = Published(1)
    /\ Titles(response.body.articles) = <<feed[3].title, feed[5].title, feed[6].title>>

(***************************************************************************)
(* get_stock_price on any close history                                    *)
(***************************************************************************)
PriceCloses == {3, 32, 33, 100, 102}
PriceHistories == SeqsUpTo(PriceCloses, MaxHist + 1)

\* a request for the quote of a ticker
PriceInit ==
    /\ api_key = TRUE
    /\ in_watchlist = TRUE
    /\ feed = <<>>
    /\ hist \in PriceHistories
    /\ env_changes = 0
    /\ endpoint = "price"
    /\ stack = <<"price">>
    /\ pc = [v \in Views |-> IF v = "price" THEN "key" ELSE "idle"]
    /\ ret = NoResp
    /\ response = NoResp
    /\ calls = <<>>
    /\ sent = NoSent
    /\ summ = NoSumm
    /\ pool = NoPool
    /\ daily = NoDaily
    /\ ParseIdle
    /\ SanitizeIdle

SpecPrice == PriceInit /\ [][PriceView]_vars

(***************************************************************************)
(* Claims about get_stock_price (SpecPrice)                                *)
(***************************************************************************)
\* r is x / y * 100 rounded to two decimals, in hundredths: no integer is
\* nearer to 10000 * x / y than r
RoundedPercent(r, x, y) ==
    LET d == r * y - 10000 * x
    IN  2 * (IF d < 0 THEN -d ELSE d) <= y

\* C13: get_stock_price answers by the row count of the close history: no
\* row gives the 429 no-data error; one row gives change_percent 0 and the
\* close as current_price; two or more rows give the last close as
\* current_price and (last - prior) / prior * 100 rounded to two decimals as
\* change_percent; the only other answer is the 500 'Service unavailable'
\* of an exception.
C13_PriceByRowCount ==
    Done("price") =>
        LET n == Len(hist)
        IN  /\ response.tuple =>
                  \/ response = ErrResp("Service unavailable", 500)
                  \/ n = 0 /\ response = ErrResp("Rate limited - wait 2 min", 429)
            /\ n = 0 => response.tuple
            /\ ~response.tuple =>
                  /\ n >= 1
                  /\ response.status = 200
                  /\ response.body.current_price = Num(100 * hist[n])
                  /\ n = 1 => response.body.change_percent = 0
                  /\ n >= 2 => RoundedPercent(response.body.change_percent,
                                               hist[n] - hist[n - 1], hist[n - 1])

\* the closes 100, 102 give 102.00 and 2.00
C13_Witness ==
    /\ Done("price")
    /\ hist = <<100, 102>>
    /\ response = OkResp([current_price |-> Num(10200), change_percent |-> 200])

(***************************************************************************)
(* sanitize_for_ai_prompt, lines 96-105.  Here a text is a sequence of     *)
(* runs, a run being one character repeated k times, so that a text longer *)
(* than 500 characters is a short sequence.  The characters are letters,   *)
(* the backslash, the space and control characters.                        *)
(***************************************************************************)
PromptCap == 500

Run(c, k) == [c |-> c, k |-> k]

\* the characters [\x00-\x1F\x7F] of line 101 that texts are made of here
ControlChars == {"NUL", "LF", "US", "DEL"}

RECURSIVE Norm(_)
\* the same text with no empty run and no two adjacent runs of one character
Norm(t) ==
    IF t = <<>> THEN <<>>
    ELSE LET h == Head(t)
             rest == Norm(Tail(t))
         IN  IF h.k = 0 THEN rest
             ELSE IF rest # <<>> /\ rest[1].c = h.c
             THEN <<Run(h.c, h.k + rest[1].k)>> \o Tail(rest)
             ELSE <<h>> \o rest

RECURSIVE TextLen(_)
\* len(t)
TextLen(t) == IF t = <<>> THEN 0 ELSE Head(t).k + TextLen(Tail(t))

\* line 101: re.sub(r'[\x00-\x1F\x7F]', '', t)
ReSubControl(t) == Norm(SelectSeq(t, LAMBDA r : r.c \notin ControlChars))

RECURSIVE ReplaceEscapeDrops(_, _)
\* ReplaceEscape with '' instead of ' ' as the replacement
ReplaceEscapeDrops(t, letter) ==
    IF Len(t) < 2 THEN t
    ELSE IF t[1].c = "\\" /\ t[2].c = letter
    THEN <<Run("\\", t[1].k - 1)>>
         \o ReplaceEscapeDrops(<<Run(letter, t[2].k - 1)>> \o SubSeq(t, 3, Len(t)), letter)
    ELSE <<t[1]>> \o ReplaceEscapeDrops(Tail(t), letter)

RECURSIVE ReplaceEscape(_, _)
\* line 103: t.replace('\\' + letter, ' ') for a text without empty or split
\* runs: of a run of backslashes followed by a run of the letter, the last
\* backslash and the first letter are the one occurrence
ReplaceEscape(t, letter) ==
    IF Len(t) < 2 THEN t
    ELSE IF t[1].c = "\\" /\ t[2].c = letter
    THEN <<Run("\\", t[1].k - 1), Run(" ", 1)>>
         \o ReplaceEscape(<<Run(letter, t[2].k - 1)>> \o SubSeq(t, 3, Len(t)), letter)
    ELSE <<t[1]>> \o ReplaceEscape(Tail(t), letter)

RECURSIVE Truncate(_, _)
\* line 105: t[:cap]
Truncate(t, cap) ==
    IF t = <<>> \/ cap = 0 THEN <<>>
    ELSE IF Head(t).k >= cap THEN <<Run(Head(t).c, cap)>>
    ELSE <<Head(t)>> \o Truncate(Tail(t), cap - Head(t).k)

\* an argument: None, or a string
NoneText == [none |-> TRUE, runs |-> <<>>]
Str(t) == [none |-> FALSE, runs |-> Norm(t)]

\* lines 96-105
sanitize_for_ai_prompt(x) ==
    IF x.none \/ x.runs = <<>> THEN <<>>
    ELSE LET no_control == ReSubControl(x.runs)
             no_n == Norm(ReplaceEscape(no_control, "n"))
             no_r == Norm(ReplaceEscape(no_n, "r"))
         IN  Truncate(no_r, PromptCap)

\* the arguments: None, the empty string and every string of at most MaxRuns
\* runs of 1 or 499 characters
RunChars == {"a", "n", "r", "\\", "LF", "DEL"}
RunLengths == {1, PromptCap - 1}
SanitizeInputs ==
    {NoneText}
    \cup {Str(t) : t \in SeqsUpTo({Run(c, k) : c \in RunChars, k \in RunLengths}, MaxRuns)}

\* a caller sanitizes a text
Sanitize ==
    /\ sanitize_pc = "start"
    /\ sanitized' = sanitize_for_ai_prompt(text_arg)
    /\ sanitize_pc' = "once"
    /\ UNCHANGED <<text_arg, resanitized, reqVars, parseVars>>

\* ... and sanitizes the result once more
SanitizeAgain ==
    /\ sanitize_pc = "once"
    /\ resanitized' = sanitize_for_ai_prompt(Str(sanitized))
    /\ sanitize_pc' = "twice"
    /\ UNCHANGED <<text_arg, sanitized, reqVars, parseVars>>

SanitizeInit ==
    /\ text_arg \in SanitizeInputs
    /\ sanitized = <<>>
    /\ resanitized = <<>>
    /\ sanitize_pc = "start"
    /\ RequestIdle
    /\ ParseIdle

SanitizeNext == Sanitize \/ SanitizeAgain

SpecSanitize == SanitizeInit /\ [][SanitizeNext]_vars

(***************************************************************************)
(* Claims about sanitize_for_ai_prompt (SpecSanitize)                      *)
(***************************************************************************)
\* C14: sanitize_for_ai_prompt is total and idempotent: for every argument,
\* None and the empty string included (they give the empty string),
\* sanitizing the result again gives the same result, the result has at most
\* 500 characters and holds no control character.
C14_SanitizeIdempotent ==
    /\ sanitize_pc \in {"once", "twice"} =>
          /\ TextLen(sanitized) <= PromptCap
          /\ \A i \in 1..Len(sanitized) : sanitized[i].c \notin ControlChars
          /\ text_arg.none \/ text_arg.runs = <<>> => sanitized = <<>>
    /\ sanitize_pc = "twice" => resanitized = sanitized

\* 499 backslashes, a control character and 499 times n: sanitized twice,
\* 498 backslashes, the space put for the backslash-n that the removal of
\* the control character made, and the one n left of the 500 characters
C14_Witness ==
    /\ sanitize_pc = "twice"
    /\ text_arg.runs = <<Run("\\", PromptCap - 1), Run("LF", 1), Run("n", PromptCap - 1)>>
    /\ sanitized = <<Run("\\", PromptCap - 2), Run(" ", 1), Run("n", 1)>>
    /\ resanitized = sanitized

====
